---------------------------- MODULE Spec2Model ----------------------------
(***************************************************************************)
(* A model of neosca_gui.ng_io.SCAIO, the document ingestion layer of the  *)
(* NeoSCA GUI: the multi-format reader with its carried-over encoding      *)
(* guess, the verification of input file lists, the cache validity test    *)
(* and the output writability probe; and of the main window of             *)
(* neosca_gui.ng_main: its file table, its result table with the buttons   *)
(* below it, and the Generate-table worker, which reads the files of a     *)
(* batch one by one.                                                       *)
(*                                                                         *)
(* Paths are sequences of one-character strings, texts are sequences of    *)
(* code points, file contents are sequences of byte values.  The file      *)
(* system, the charset detector, the zip and XML libraries and glob are    *)
(* the environment of the code; they are modelled by what the code can     *)
(* observe of them.                                                        *)
(***************************************************************************)
EXTENDS Integers, Sequences, FiniteSets, TLC

VARIABLES
    previous_encoding,  \* SCAIO.previous_encoding
    fs,                 \* the file system: node -> [exists, empty, mtime, busy]
    clock,              \* the file system's time, the source of mtimes
    op,                 \* the operation that ran last ("init" before any)
    arg,                \* its arguments, a sequence of paths
    outcome,            \* "return", "raise" (an exception propagates) or "exit"
    exc,                \* the exception that propagated, "" if none
    rkind,              \* what was returned: "text", "none", "set", "bool", "pair"
    rtext,              \* the returned text (code points)
    rpaths,             \* the returned set of paths
    rbool,              \* the returned boolean (the first of a returned pair)
    rmsg,               \* the message of a returned pair, a sequence of parts
    log,                \* the warnings and criticals the last operation logged: <<level, path>>
    detect_calls,       \* the number of calls of detect() made by the last operation
    detected,           \* what the last call of detect() answered ("" if none made)
    batch,              \* history: per guessing txt read so far, [enc, calls, ok]
    IS_WINDOWS,         \* ng_platform_info.IS_WINDOWS, fixed for a run
    turn,               \* history: flips at every call of an SCAIO operation
    worker,             \* the Generate-table worker: its position in the batch and what it recorded
    probed,             \* history: the files is_writable truncated that were not written since
    gui                 \* the main window: the file table, the result tables, their buttons

vars == <<previous_encoding, fs, clock, op, arg, outcome, exc, rkind, rtext,
          rpaths, rbool, rmsg, log, detect_calls, detected, batch, IS_WINDOWS, turn,
          worker, probed, gui>>

-----------------------------------------------------------------------------
(* Bounds of the model.                                                    *)

\* The file system's clock stops here: no write happens at a later time.
MaxTime == 3
\* The longest list of path specifications handed to get_verified_ifile_list.
MaxSpecs == 2
\* The longest batch of plain-text files read on one SCAIO instance.
MaxBatch == 3
\* The most files the file table holds when a Generate-table batch starts.
MaxFiles == 2

-----------------------------------------------------------------------------
(* Strings.                                                                *)

None == "None"

RECURSIVE Flatten(_)
\* The concatenation of a sequence of sequences.
Flatten(ss) == IF ss = <<>> THEN <<>> ELSE Head(ss) \o Flatten(Tail(ss))

RECURSIVE LastIndexOf(_, _)
\* The index of the last occurrence of character c in s, 0 if there is none.
LastIndexOf(s, c) ==
    IF s = <<>> THEN 0
    ELSE IF s[Len(s)] = c THEN Len(s)
    ELSE LastIndexOf(SubSeq(s, 1, Len(s) - 1), c)

StartsWith(s, p) == Len(s) >= Len(p) /\ SubSeq(s, 1, Len(p)) = p
EndsWith(s, p) == Len(s) >= Len(p) /\ SubSeq(s, Len(s) - Len(p) + 1, Len(s)) = p

RECURSIVE Replace(_, _, _)
\* str.replace(old, new): every non-overlapping occurrence, left to right.
Replace(s, old, new) ==
    IF s = <<>> THEN <<>>
    ELSE IF StartsWith(s, old) THEN new \o Replace(SubSeq(s, Len(old) + 1, Len(s)), old, new)
    ELSE <<Head(s)>> \o Replace(Tail(s), old, new)

RECURSIVE Split(_, _)
\* str.split(c): the pieces of s between the occurrences of character c.
Split(s, c) ==
    LET i == LastIndexOf(s, c) IN
    IF i = 0 THEN <<s>>
    ELSE Append(Split(SubSeq(s, 1, i - 1), c), SubSeq(s, i + 1, Len(s)))

RECURSIVE Join(_, _)
\* sep.join(parts)
Join(parts, sep) ==
    IF parts = <<>> THEN <<>>
    ELSE IF Len(parts) = 1 THEN parts[1]
    ELSE parts[1] \o sep \o Join(Tail(parts), sep)

RECURSIVE SeqOfSet(_)
\* The elements of a finite set in some fixed order.
SeqOfSet(S) ==
    IF S = {} THEN <<>>
    ELSE LET x == CHOOSE y \in S : TRUE IN <<x>> \o SeqOfSet(S \ {x})

SetOfSeq(s) == {s[i] : i \in 1..Len(s)}

-----------------------------------------------------------------------------
(* SCAIO's class attributes.                                               *)

TXT == <<"t", "x", "t">>
DOCX == <<"d", "o", "c", "x">>
ODT == <<"o", "d", "t">>
SUPPORTED_EXTENSIONS == <<TXT, DOCX, ODT>>

Supported(extension) == \E i \in 1..Len(SUPPORTED_EXTENSIONS) : SUPPORTED_EXTENSIONS[i] = extension

\* SCAIO.suffix: *_, extension = path.split(".")
suffix(path) == LET pieces == Split(path, ".") IN pieces[Len(pieces)]

-----------------------------------------------------------------------------
(* Decoding.  The codecs are Python's; a decoder answers [ok, text] where  *)
(* ok = FALSE stands for UnicodeDecodeError.                               *)

Encodings == {"utf-8", "latin-1", "cp1252", "ascii"}

Failed == [ok |-> FALSE, text |-> <<>>]
Cons(cp, rest) == IF rest.ok THEN [ok |-> TRUE, text |-> <<cp>> \o rest.text] ELSE Failed

IsCont(b) == b \in 128..191

RECURSIVE DecodeUtf8(_)
DecodeUtf8(b) ==
    IF b = <<>> THEN [ok |-> TRUE, text |-> <<>>]
    ELSE LET b0 == b[1] IN
         IF b0 < 128 THEN Cons(b0, DecodeUtf8(Tail(b)))
         ELSE IF b0 \in 194..223 /\ Len(b) >= 2 /\ IsCont(b[2])
              THEN Cons((b0 - 192) * 64 + (b[2] - 128), DecodeUtf8(SubSeq(b, 3, Len(b))))
         ELSE IF /\ b0 \in 224..239 /\ Len(b) >= 3 /\ IsCont(b[2]) /\ IsCont(b[3])
                 /\ (b0 = 224 => b[2] >= 160) /\ (b0 = 237 => b[2] <= 159)
              THEN Cons((b0 - 224) * 4096 + (b[2] - 128) * 64 + (b[3] - 128),
                        DecodeUtf8(SubSeq(b, 4, Len(b))))
         ELSE IF /\ b0 \in 240..244 /\ Len(b) >= 4
                 /\ IsCont(b[2]) /\ IsCont(b[3]) /\ IsCont(b[4])
                 /\ (b0 = 240 => b[2] >= 144) /\ (b0 = 244 => b[2] <= 143)
              THEN Cons((b0 - 240) * 262144 + (b[2] - 128) * 4096
                        + (b[3] - 128) * 64 + (b[4] - 128),
                        DecodeUtf8(SubSeq(b, 5, Len(b))))
         ELSE Failed

\* ISO 8859-1: byte b is code point b.
DecodeLatin1(b) == [ok |-> TRUE, text |-> b]

\* Windows-1252 for the bytes 0x80..0x9F (0: the byte is undefined).
Cp1252High ==
    <<8364, 0, 8218, 402, 8222, 8230, 8224, 8225, 710, 8240, 352, 8249, 338, 0, 381, 0,
      0, 8216, 8217, 8220, 8221, 8226, 8211, 8212, 732, 8482, 353, 8250, 339, 0, 382, 376>>

RECURSIVE DecodeCp1252(_)
DecodeCp1252(b) ==
    IF b = <<>> THEN [ok |-> TRUE, text |-> <<>>]
    ELSE LET b0 == b[1] IN
         IF b0 \in 128..159
         THEN IF Cp1252High[b0 - 127] = 0 THEN Failed
              ELSE Cons(Cp1252High[b0 - 127], DecodeCp1252(Tail(b)))
         ELSE Cons(b0, DecodeCp1252(Tail(b)))

DecodeAscii(b) ==
    IF \A i \in 1..Len(b) : b[i] < 128 THEN [ok |-> TRUE, text |-> b] ELSE Failed

\* bytes.decode(encoding)
Decode(encoding, b) ==
    CASE encoding = "utf-8" -> DecodeUtf8(b)
      [] encoding = "latin-1" -> DecodeLatin1(b)
      [] encoding = "cp1252" -> DecodeCp1252(b)
      [] encoding = "ascii" -> DecodeAscii(b)

CR == 13
LF == 10

RECURSIVE TranslateNewlines(_)
\* Text mode's universal newlines (newline=None): "\r\n" and "\r" are read as "\n".
TranslateNewlines(t) ==
    IF t = <<>> THEN <<>>
    ELSE IF t[1] = CR
         THEN <<LF>> \o TranslateNewlines(IF Len(t) >= 2 /\ t[2] = LF
                                          THEN SubSeq(t, 3, Len(t)) ELSE Tail(t))
    ELSE <<t[1]>> \o TranslateNewlines(Tail(t))

\* open(path, "r", encoding=encoding).read() on a file holding bytes b
ReadText(encoding, b) ==
    LET d == Decode(encoding, b) IN
    IF d.ok THEN [ok |-> TRUE, text |-> TranslateNewlines(d.text)] ELSE Failed

-----------------------------------------------------------------------------
(* The files of the model: the paths that may exist, by canonical name.    *)

\* u.txt
P_u_txt == <<"u", ".", "t", "x", "t">>
\* l.txt
P_l_txt == <<"l", ".", "t", "x", "t">>
\* m.txt
P_m_txt == <<"m", ".", "t", "x", "t">>
\* r.txt
P_r_txt == <<"r", ".", "t", "x", "t">>
\* p.txt
P_p_txt == <<"p", ".", "t", "x", "t">>
\* s.docx
P_s_docx == <<"s", ".", "d", "o", "c", "x">>
\* s.odt
P_s_odt == <<"s", ".", "o", "d", "t">>
\* t.docx
P_t_docx == <<"t", ".", "d", "o", "c", "x">>
\* t.odt
P_t_odt == <<"t", ".", "o", "d", "t">>
\* f.pdf
P_f_pdf == <<"f", ".", "p", "d", "f">>
\* txt
P_txt == <<"t", "x", "t">>
\* n
P_n == <<"n">>
\* o.csv
P_o_csv == <<"o", ".", "c", "s", "v">>
\* x.docx
P_x_docx == <<"x", ".", "d", "o", "c", "x">>
\* k.docx
P_k_docx == <<"k", ".", "d", "o", "c", "x">>
\* q.odt
P_q_odt == <<"q", ".", "o", "d", "t">>
\* d
P_d == <<"d">>
\* d/a.txt
P_d_a_txt == <<"d", "/", "a", ".", "t", "x", "t">>
\* d/b.docx
P_d_b_docx == <<"d", "/", "b", ".", "d", "o", "c", "x">>
\* d/~c.docx
P_d_lock_docx == <<"d", "/", "~", "c", ".", "d", "o", "c", "x">>
\* d/e.odt
P_d_e_odt == <<"d", "/", "e", ".", "o", "d", "t">>
\* d/f.pdf
P_d_f_pdf == <<"d", "/", "f", ".", "p", "d", "f">>
\* d/s.txt
P_d_s_txt == <<"d", "/", "s", ".", "t", "x", "t">>
\* d/.h.txt
P_d_h_txt == <<"d", "/", ".", "h", ".", "t", "x", "t">>
\* d/s.txt/g.txt
P_d_s_txt_g_txt == <<"d", "/", "s", ".", "t", "x", "t", "/", "g", ".", "t", "x", "t">>

Dirs == {P_d, P_d_s_txt}
Files == {P_u_txt, P_l_txt, P_m_txt, P_r_txt, P_p_txt, P_s_docx, P_s_odt, P_t_docx, P_t_odt,
          P_f_pdf, P_txt, P_n,
          P_o_csv, P_x_docx, P_k_docx, P_q_odt, P_d_a_txt, P_d_b_docx, P_d_lock_docx, P_d_e_odt, P_d_f_pdf, P_d_h_txt,
          P_d_s_txt_g_txt}
Nodes == Dirs \cup Files

\* The content a plain file holds when it is not empty, and the encoding it was
\* written in.
ZipFiles == {P_s_docx, P_s_odt, P_t_docx, P_t_odt, P_k_docx, P_q_odt, P_d_b_docx, P_d_lock_docx, P_d_e_odt}

RawFiles ==
    [n \in Files \ ZipFiles |->
        CASE n = P_u_txt -> [bytes |-> <<65, 195, 169>>, enc |-> "utf-8"]
          [] n = P_l_txt -> [bytes |-> <<65, 233>>, enc |-> "latin-1"]
          [] n = P_m_txt -> [bytes |-> <<233, 129>>, enc |-> "latin-1"]
          [] n = P_r_txt -> [bytes |-> <<233, 13, 10, 65>>, enc |-> "latin-1"]
          [] n = P_p_txt -> [bytes |-> <<65, 66>>, enc |-> "latin-1"]
          [] n = P_txt -> [bytes |-> <<66, 195, 169>>, enc |-> "utf-8"]
          [] OTHER -> [bytes |-> <<65>>, enc |-> "utf-8"]]

\* The bytes a plain file holds now.
Bytes(n) == IF fs[n].empty THEN <<>> ELSE RawFiles[n].bytes

\* The text a plain file stands for: its bytes in the encoding it was written in.
TrueText(n) == TranslateNewlines(Decode(RawFiles[n].enc, Bytes(n)).text)

-----------------------------------------------------------------------------
(* os.path and glob over the file system.                                  *)

SEP == "/"

IsNamePiece(c) == c # <<>> /\ c # <<".">>

\* The node a path names: empty and "." components are skipped.
Canon(path) == Join(SelectSeq(Split(path, SEP), IsNamePiece), <<SEP>>)

exists(path) == Canon(path) \in Nodes /\ fs[Canon(path)].exists
isfile(path) == exists(path) /\ Canon(path) \in Files
isdir(path) == exists(path) /\ Canon(path) \in Dirs

\* os.path.basename: what follows the last separator.
basename(path) == SubSeq(path, LastIndexOf(path, SEP) + 1, Len(path))
\* os.path.dirname, as glob uses it: what precedes the last separator.
dirname(path) == SubSeq(path, 1, LastIndexOf(path, SEP) - 1)

has_magic(s) == \E i \in 1..Len(s) : s[i] \in {"*", "?", "["}

RECURSIVE fnmatch(_, _)
\* fnmatch of one name against one pattern of literals, "*" and "?".
fnmatch(name, pat) ==
    IF pat = <<>> THEN name = <<>>
    ELSE IF Head(pat) = "*"
         THEN fnmatch(name, Tail(pat)) \/ (name # <<>> /\ fnmatch(Tail(name), pat))
    ELSE IF Head(pat) = "?" THEN name # <<>> /\ fnmatch(Tail(name), Tail(pat))
    ELSE name # <<>> /\ Head(name) = Head(pat) /\ fnmatch(Tail(name), Tail(pat))

is_hidden(name) == name # <<>> /\ name[1] = "."

\* The names of the entries of the directory a path names.
listdir(dir) == {basename(n) : n \in {m \in Nodes : fs[m].exists /\ dirname(m) = Canon(dir)}}

\* glob.glob(pattern), as a set: the order of its list is the file system's.
\* Patterns hold their wildcards in the last component only.
glob(pattern) ==
    IF ~has_magic(pattern) THEN (IF exists(pattern) THEN {pattern} ELSE {})
    ELSE IF dirname(pattern) # <<>> /\ ~isdir(dirname(pattern)) THEN {}
    ELSE {(IF LastIndexOf(pattern, SEP) = 0 THEN <<>> ELSE dirname(pattern) \o <<SEP>>) \o name :
            name \in {m \in listdir(dirname(pattern)) :
                        /\ fnmatch(m, basename(pattern))
                        /\ (is_hidden(m) => is_hidden(basename(pattern)))}}

-----------------------------------------------------------------------------
(* Zip archives and XML.  An element is [tag, text, tail, kids]; an absent *)
(* text or tail is the empty text.                                         *)

DOCX_PARA == "{w}p"
DOCX_TEXT == "{w}t"
ODT_PARA == "{text}p"
DOCX_MEMBER == "word/document.xml"
ODT_MEMBER == "content.xml"

Elem(tag, text, tail, kids) == [tag |-> tag, text |-> text, tail |-> tail, kids |-> kids]

\* <w:document><w:body><w:p><w:r><w:t>A</w:t></w:r><w:r><w:t>B</w:t></w:r></w:p>
\* <w:p/><w:p><w:r><w:t>C</w:t></w:r></w:p></w:body></w:document>
SampleDocx ==
    Elem("{w}document", <<>>, <<>>, <<
      Elem("{w}body", <<>>, <<>>, <<
        Elem(DOCX_PARA, <<>>, <<>>, <<
          Elem("{w}r", <<>>, <<>>, <<Elem(DOCX_TEXT, <<65>>, <<>>, <<>>)>>),
          Elem("{w}r", <<>>, <<>>, <<Elem(DOCX_TEXT, <<66>>, <<>>, <<>>)>>)>>),
        Elem(DOCX_PARA, <<>>, <<>>, <<>>),
        Elem(DOCX_PARA, <<>>, <<>>, <<
          Elem("{w}r", <<>>, <<>>, <<Elem(DOCX_TEXT, <<67>>, <<>>, <<>>)>>)>>)>>)>>)

\* <office:document-content><office:body><office:text>
\* <text:p>A<text:span>B</text:span>C</text:p><text:p>D</text:p>
\* </office:text></office:body></office:document-content>
SampleOdt ==
    Elem("{office}document-content", <<>>, <<>>, <<
      Elem("{office}body", <<>>, <<>>, <<
        Elem("{office}text", <<>>, <<>>, <<
          Elem(ODT_PARA, <<65>>, <<>>, <<Elem("{text}span", <<66>>, <<67>>, <<>>)>>),
          Elem(ODT_PARA, <<68>>, <<>>, <<>>)>>)>>)>>)

\* A document with a text box and a table:
\* <w:document><w:body>
\* <w:p>X<w:r><w:t>A</w:t>T</w:r><w:r><w:t/></w:r>
\*   <w:r><w:pict><w:txbxContent><w:p><w:r><w:t>B</w:t></w:r></w:p></w:txbxContent></w:pict></w:r>
\*   <w:r><w:t>C</w:t></w:r></w:p>
\* <w:tbl><w:tc><w:p><w:r><w:t>D</w:t></w:r></w:p></w:tc></w:tbl>
\* <w:p/></w:body></w:document>
NestedDocx ==
    Elem("{w}document", <<>>, <<>>, <<
      Elem("{w}body", <<>>, <<>>, <<
        Elem(DOCX_PARA, <<88>>, <<>>, <<
          Elem("{w}r", <<>>, <<>>, <<Elem(DOCX_TEXT, <<65>>, <<84>>, <<>>)>>),
          Elem("{w}r", <<>>, <<>>, <<Elem(DOCX_TEXT, <<>>, <<>>, <<>>)>>),
          Elem("{w}r", <<>>, <<>>, <<
            Elem("{w}pict", <<>>, <<>>, <<
              Elem("{w}txbxContent", <<>>, <<>>, <<
                Elem(DOCX_PARA, <<>>, <<>>, <<
                  Elem("{w}r", <<>>, <<>>, <<Elem(DOCX_TEXT, <<66>>, <<>>, <<>>)>>)>>)>>)>>)>>),
          Elem("{w}r", <<>>, <<>>, <<Elem(DOCX_TEXT, <<67>>, <<>>, <<>>)>>)>>),
        Elem("{w}tbl", <<>>, <<>>, <<
          Elem("{w}tc", <<>>, <<>>, <<
            Elem(DOCX_PARA, <<>>, <<>>, <<
              Elem("{w}r", <<>>, <<>>, <<Elem(DOCX_TEXT, <<68>>, <<>>, <<>>)>>)>>)>>)>>),
        Elem(DOCX_PARA, <<>>, <<>>, <<>>)>>)>>)

\* A document with a frame, a list and a heading:
\* <office:document-content><office:body><office:text>
\* <text:p>A<text:span>B<text:s/>c</text:span>C<draw:frame><draw:text-box>
\*   <text:p>D</text:p>E</draw:text-box></draw:frame>F</text:p>
\* <text:list><text:list-item><text:p>G</text:p></text:list-item></text:list>
\* <text:p/><text:h>H</text:h>
\* </office:text></office:body></office:document-content>
NestedOdt ==
    Elem("{office}document-content", <<>>, <<>>, <<
      Elem("{office}body", <<>>, <<>>, <<
        Elem("{office}text", <<>>, <<>>, <<
          Elem(ODT_PARA, <<65>>, <<>>, <<
            Elem("{text}span", <<66>>, <<67>>, <<Elem("{text}s", <<>>, <<99>>, <<>>)>>),
            Elem("{draw}frame", <<>>, <<70>>, <<
              Elem("{draw}text-box", <<>>, <<>>, <<Elem(ODT_PARA, <<68>>, <<69>>, <<>>)>>)>>)>>),
          Elem("{text}list", <<>>, <<>>, <<
            Elem("{text}list-item", <<>>, <<>>, <<Elem(ODT_PARA, <<71>>, <<>>, <<>>)>>)>>),
          Elem(ODT_PARA, <<>>, <<>>, <<>>),
          Elem("{text}h", <<72>>, <<>>, <<>>)>>)>>)>>)

\* What each archive holds: member name -> [wellformed, root].
Archives ==
    [n \in ZipFiles |->
        CASE n \in {P_s_docx, P_d_b_docx, P_d_lock_docx} ->
                [m \in {DOCX_MEMBER} |-> [wellformed |-> TRUE, root |-> SampleDocx]]
          [] n \in {P_s_odt, P_d_e_odt} ->
                [m \in {ODT_MEMBER} |-> [wellformed |-> TRUE, root |-> SampleOdt]]
          [] n = P_t_docx ->
                [m \in {DOCX_MEMBER} |-> [wellformed |-> TRUE, root |-> NestedDocx]]
          [] n = P_t_odt ->
                [m \in {ODT_MEMBER} |-> [wellformed |-> TRUE, root |-> NestedOdt]]
          [] n = P_k_docx ->
                [m \in {"docProps/app.xml"} |-> [wellformed |-> TRUE, root |-> SampleDocx]]
          [] n = P_q_odt ->
                [m \in {ODT_MEMBER} |-> [wellformed |-> FALSE, root |-> SampleOdt]]]

\* The plain text each sample document is known to stand for.
SampleText ==
    [n \in {P_s_docx, P_s_odt, P_d_b_docx, P_d_lock_docx, P_d_e_odt} |->
        IF n \in {P_s_docx, P_d_b_docx, P_d_lock_docx}
        THEN <<65, 66, 10, 10, 67>> ELSE <<65, 66, 67, 10, 68>>]

\* os.path.getsize of an existing node.
getsize(n) ==
    IF n \in Dirs THEN 4096
    ELSE IF fs[n].empty THEN 0
    ELSE IF n \in ZipFiles THEN 22 + Cardinality(DOMAIN Archives[n])
    ELSE Len(RawFiles[n].bytes)

RECURSIVE iter_all(_)
\* Element.iter(): the element and its descendants, in document order.
iter_all(e) == <<e>> \o Flatten([i \in 1..Len(e.kids) |-> iter_all(e.kids[i])])

\* Element.iter(tag)
iter(e, tag) == SelectSeq(iter_all(e), LAMBDA x : x.tag = tag)

\* Element.findall(".//tag"): the descendants of e with that tag, e itself excluded.
findall_descendants(e, tag) == SelectSeq(Tail(iter_all(e)), LAMBDA x : x.tag = tag)

RECURSIVE itertext(_)
\* "".join(Element.itertext()): the inner text, the tails of the descendants included.
itertext(e) == e.text \o Flatten([i \in 1..Len(e.kids) |-> itertext(e.kids[i]) \o e.kids[i].tail])

-----------------------------------------------------------------------------
(* What an operation did: how it ended, what it returned, what it logged,  *)
(* and the state it left.                                                  *)

Returned ==
    [outcome |-> "return", exc |-> "", rkind |-> "none", text |-> <<>>, paths |-> {},
     bool |-> FALSE, msg |-> <<>>, log |-> <<>>, enc |-> previous_encoding,
     calls |-> 0, detected |-> "", fs |-> fs]

ReturnText(t) == [Returned EXCEPT !.rkind = "text", !.text = t]
Raise(e) == [Returned EXCEPT !.outcome = "raise", !.exc = e]
\* sys.exit(1): SystemExit unwinds the interpreter.
Exit == [Returned EXCEPT !.outcome = "exit", !.exc = "SystemExit"]
Logged(r, level, path) == [r EXCEPT !.log = <<<<level, path>>>> \o r.log]

-----------------------------------------------------------------------------
(* SCAIO: the readers.                                                     *)

\* What opening an existing path as a zip archive and reading a member gives.
ZipRead(path, member) ==
    LET n == Canon(path) IN
    IF ~exists(path) THEN [err |-> "FileNotFoundError"]
    ELSE IF n \in Dirs THEN [err |-> "IsADirectoryError"]
    ELSE IF n \notin ZipFiles \/ fs[n].empty THEN [err |-> "BadZipFile"]
    ELSE IF member \notin DOMAIN Archives[n] THEN [err |-> "KeyError"]
    ELSE IF ~Archives[n][member].wellformed THEN [err |-> "ParseError"]
    ELSE [err |-> "", root |-> Archives[n][member].root]

DocxParagraphTextWithTails(paragraph) == itertext(paragraph)

DocxParagraphText(paragraph) ==
    LET nodes == iter(paragraph, DOCX_TEXT) IN
    Flatten([i \in 1..Len(nodes) |-> nodes[i].text])

ReadDocxSkipsCorruptInput(path) ==
    LET z == ZipRead(path, DOCX_MEMBER) IN
    IF z.err # "" THEN Logged(Returned, "warning", path)
    ELSE LET ps == iter(z.root, DOCX_PARA) IN
         ReturnText(Join([i \in 1..Len(ps) |-> DocxParagraphText(ps[i])], <<LF>>))

read_docx(path) ==
    LET z == ZipRead(path, DOCX_MEMBER) IN
    IF z.err # "" THEN Raise(z.err)
    ELSE LET ps == iter(z.root, DOCX_PARA) IN
         ReturnText(Join([i \in 1..Len(ps) |-> DocxParagraphText(ps[i])], <<LF>>))

ReadOdtDirectTextOnly(path) ==
    LET z == ZipRead(path, ODT_MEMBER) IN
    IF z.err # "" THEN Raise(z.err)
    ELSE LET ps == findall_descendants(z.root, ODT_PARA) IN
         ReturnText(Join([i \in 1..Len(ps) |-> ps[i].text], <<LF>>))

read_odt(path) ==
    LET z == ZipRead(path, ODT_MEMBER) IN
    IF z.err # "" THEN Raise(z.err)
    ELSE LET ps == findall_descendants(z.root, ODT_PARA) IN
         ReturnText(Join([i \in 1..Len(ps) |-> itertext(ps[i])], <<LF>>))

\* SCAIO._read_txt: [status, exc, content]; status "exit" is the critical log
\* followed by sys.exit(1).
_read_txt(path, mode, encoding) ==
    LET n == Canon(path) IN
    IF ~exists(path) THEN [status |-> "exit", exc |-> "SystemExit", content |-> <<>>]
    ELSE IF n \in Dirs THEN [status |-> "raise", exc |-> "IsADirectoryError", content |-> <<>>]
    ELSE IF mode = "rb" THEN [status |-> "ok", exc |-> "", content |-> Bytes(n)]
    ELSE LET d == ReadText(encoding, Bytes(n)) IN
         IF d.ok THEN [status |-> "ok", exc |-> "", content |-> d.text]
         ELSE [status |-> "raise", exc |-> "UnicodeDecodeError", content |-> <<>>]

\* How a call of _read_txt that did not give content ends the caller.
Propagate(r, path) ==
    IF r.status = "exit" THEN Logged(Exit, "critical", path) ELSE Raise(r.exc)

\* The file system once another process has removed the file.
Vanished(path) == [fs EXCEPT ![Canon(path)].exists = FALSE]

\* What detect(bytes_)["encoding"] may answer: the library's guess, or None.
detect_answers == Encodings \cup {None}

GuessAndDecodeExitsWithoutGuess(path, vanish, answer) ==
    IF vanish
    THEN [Logged(Exit, "critical", path) EXCEPT !.fs = Vanished(path)]
    ELSE LET bytes_ == _read_txt(path, "rb", None).content
             guessed == [Returned EXCEPT !.calls = 1, !.detected = answer]
         IN  IF answer = None
             THEN Logged([guessed EXCEPT !.outcome = "exit", !.exc = "SystemExit"], "critical", path)
             ELSE LET d == Decode(answer, bytes_) IN
                  IF d.ok
                  THEN [guessed EXCEPT !.enc = answer, !.rkind = "text", !.text = d.text]
                  ELSE [guessed EXCEPT !.enc = answer, !.outcome = "raise",
                                       !.exc = "UnicodeDecodeError"]

\* The second half of read_txt, entered on UnicodeDecodeError.  vanish: the file is
\* removed between the two opens; answer: what detect() answers.
GuessAndDecode(path, vanish, answer) ==
    IF vanish
    THEN [Logged(Exit, "critical", path) EXCEPT !.fs = Vanished(path)]
    ELSE LET bytes_ == _read_txt(path, "rb", None).content
             guessed == [Returned EXCEPT !.calls = 1, !.detected = answer]
         IN  IF answer = None THEN Logged(guessed, "warning", path)
             ELSE LET d == Decode(answer, bytes_) IN
                  IF d.ok
                  THEN [guessed EXCEPT !.enc = answer, !.rkind = "text", !.text = d.text]
                  ELSE [guessed EXCEPT !.enc = answer, !.outcome = "raise",
                                       !.exc = "UnicodeDecodeError"]

ReadTxtAlwaysUtf8(path, is_guess_encoding, vanish, answer) ==
    LET first == _read_txt(path, "r", "utf-8") IN
    IF first.status = "ok" THEN ReturnText(first.content)
    ELSE IF first.status = "raise" /\ first.exc = "UnicodeDecodeError" /\ is_guess_encoding
         THEN GuessAndDecode(path, vanish, answer)
    ELSE Propagate(first, path)

read_txt(path, is_guess_encoding, vanish, answer) ==
    IF ~is_guess_encoding
    THEN LET r == _read_txt(path, "r", "utf-8") IN
         IF r.status = "ok" THEN ReturnText(r.content) ELSE Propagate(r, path)
    ELSE LET first == _read_txt(path, "r", previous_encoding) IN
         IF first.status = "ok" THEN ReturnText(first.content)
         ELSE IF first.status = "raise" /\ first.exc = "UnicodeDecodeError"
              THEN GuessAndDecode(path, vanish, answer)
         ELSE Propagate(first, path)

\* SCAIO.extension_readfunc_map[extension](path)
Dispatch(extension, path, vanish, answer) ==
    CASE extension = TXT -> read_txt(path, TRUE, vanish, answer)
      [] extension = DOCX -> read_docx(path)
      [] extension = ODT -> read_odt(path)

ReadFileDispatchesAnyway(path, vanish, answer) ==
    IF suffix(path) = TXT \/ ~Supported(suffix(path))
    THEN read_txt(path, TRUE, vanish, answer)
    ELSE Dispatch(suffix(path), path, vanish, answer)

read_file(path, vanish, answer) ==
    LET extension == suffix(path) IN
    IF ~Supported(extension) THEN Logged(Returned, "warning", path)
    ELSE Dispatch(extension, path, vanish, answer)

-----------------------------------------------------------------------------
(* SCAIO.is_writable                                                       *)

CSV == <<".", "c", "s", "v">>
CSV2 == <<"-", "2", ".", "c", "s", "v">>

PermissionMessageWithoutFString(filename) ==
    <<"PermissionError: can not write to {filename}, because it is already in use">>
    \o <<" by another process.\n\n1. Ensure that {filename} is closed, or \n2.">>
    \o <<" Specify another output filename through the -o option, e.g. nsca">>
    \o <<" input.txt -o ">> \o Replace(filename, CSV, CSV2)

\* The message of the PermissionError branch: the concatenation of its four string
\* literals, the first and the last of them f-strings.  The fixed text of a
\* literal is kept as one symbol.
PermissionMessage(filename) ==
    <<"PermissionError: can not write to ">> \o filename
    \o <<", because it is already in use">>
    \o <<" by another process.\n\n1. Ensure that {filename} is closed, or \n2.">>
    \o <<" Specify another output filename through the -o option, e.g. nsca">>
    \o <<" input.txt -o ">> \o Replace(filename, CSV, CSV2)

\* open(filename, "w") on an existing path: the error it raises, "" if it opens.
OpenForWriting(filename) ==
    LET n == Canon(filename) IN
    IF n \in Dirs THEN "IsADirectoryError"
    ELSE IF fs[n].busy THEN "PermissionError"
    ELSE ""

OpenedAndLeftAsItWas(filename) == fs

\* The file system after a successful open(filename, "w"): the file is truncated.
Truncated(filename) ==
    [fs EXCEPT ![Canon(filename)].empty = TRUE, ![Canon(filename)].mtime = clock]

\* The returned pair is (bool, msg); msg = <<>> stands for None.
is_writable(filename) ==
    IF ~exists(filename) THEN [Returned EXCEPT !.rkind = "pair", !.bool = TRUE]
    ELSE LET e == OpenForWriting(filename) IN
         IF e = "PermissionError"
         THEN [Returned EXCEPT !.rkind = "pair", !.bool = FALSE,
                               !.msg = PermissionMessage(filename)]
         ELSE IF e # "" THEN Raise(e)
         ELSE [Returned EXCEPT !.rkind = "pair", !.bool = TRUE, !.fs = Truncated(filename)]

-----------------------------------------------------------------------------
(* SCAIO.has_valid_cache                                                   *)

ReturnBool(b) == [Returned EXCEPT !.rkind = "bool", !.bool = b]

HasValidCacheNotStrict(file_path, cache_path) ==
    IF ~exists(cache_path) THEN ReturnBool(FALSE)
    ELSE IF ~exists(file_path) THEN Raise("FileNotFoundError")
    ELSE ReturnBool(getsize(Canon(cache_path)) > 0
                    /\ fs[Canon(cache_path)].mtime >= fs[Canon(file_path)].mtime)

has_valid_cache(file_path, cache_path) ==
    LET is_exist == exists(cache_path) IN
    IF ~is_exist THEN ReturnBool(FALSE)
    ELSE LET is_not_empty == getsize(Canon(cache_path)) > 0 IN
         \* os.path.getmtime(file_path) raises when file_path does not exist
         IF ~exists(file_path) THEN Raise("FileNotFoundError")
         ELSE LET is_cache_newer_than_input ==
                      fs[Canon(cache_path)].mtime > fs[Canon(file_path)].mtime
              IN  ReturnBool(is_not_empty /\ is_cache_newer_than_input)

-----------------------------------------------------------------------------
(* SCAIO.get_verified_ifile_list                                           *)

DirectoryEntriesOfAnyType(path) ==
    SelectSeq(SeqOfSet(glob(path \o <<SEP>> \o <<"*">>)), LAMBDA q : isfile(q))

\* The paths a directory specification adds.
DirectoryEntries(path) ==
    SelectSeq(SeqOfSet(glob(path \o <<SEP>> \o <<"*">>)),
              LAMBDA q : isfile(q) /\ Supported(suffix(q)))

IsLockFile(path) == EndsWith(path, <<".">> \o DOCX) /\ StartsWith(basename(path), <<"~">>)

RECURSIVE VerifyLoopBreaks(_, _, _)
VerifyLoopBreaks(ifile_list, verified_ifile_list, logged) ==
    IF ifile_list = <<>>
    THEN [outcome |-> "return", list |-> verified_ifile_list, log |-> logged]
    ELSE LET path == Head(ifile_list) IN
         IF isfile(path)
         THEN IF ~Supported(suffix(path))
              THEN [outcome |-> "return", list |-> verified_ifile_list,
                    log |-> Append(logged, <<"warning", path>>)]
              ELSE VerifyLoopBreaks(Tail(ifile_list), Append(verified_ifile_list, path), logged)
         ELSE IF isdir(path)
         THEN VerifyLoopBreaks(Tail(ifile_list), verified_ifile_list \o DirectoryEntries(path), logged)
         ELSE IF glob(path) # {}
         THEN VerifyLoopBreaks(Tail(ifile_list), verified_ifile_list \o SeqOfSet(glob(path)), logged)
         ELSE [outcome |-> "exit", list |-> <<>>, log |-> Append(logged, <<"critical", path>>)]

RECURSIVE VerifyLoopFiltersPatterns(_, _, _)
VerifyLoopFiltersPatterns(ifile_list, verified_ifile_list, logged) ==
    IF ifile_list = <<>>
    THEN [outcome |-> "return", list |-> verified_ifile_list, log |-> logged]
    ELSE LET path == Head(ifile_list) IN
         IF isfile(path)
         THEN IF ~Supported(suffix(path))
              THEN VerifyLoopFiltersPatterns(Tail(ifile_list), verified_ifile_list,
                                             Append(logged, <<"warning", path>>))
              ELSE VerifyLoopFiltersPatterns(Tail(ifile_list), Append(verified_ifile_list, path), logged)
         ELSE IF isdir(path)
         THEN VerifyLoopFiltersPatterns(Tail(ifile_list), verified_ifile_list \o DirectoryEntries(path), logged)
         ELSE IF glob(path) # {}
         THEN VerifyLoopFiltersPatterns(
                  Tail(ifile_list),
                  verified_ifile_list \o SelectSeq(SeqOfSet(glob(path)),
                                                   LAMBDA q : isfile(q) /\ Supported(suffix(q))),
                  logged)
         ELSE [outcome |-> "exit", list |-> <<>>, log |-> Append(logged, <<"critical", path>>)]

RECURSIVE VerifyLoop(_, _, _)
\* The for loop: the specifications left, the list and the log so far.
VerifyLoop(ifile_list, verified_ifile_list, logged) ==
    IF ifile_list = <<>>
    THEN [outcome |-> "return", list |-> verified_ifile_list, log |-> logged]
    ELSE LET path == Head(ifile_list) IN
         IF isfile(path)
         THEN IF ~Supported(suffix(path))
              THEN VerifyLoop(Tail(ifile_list), verified_ifile_list,
                              Append(logged, <<"warning", path>>))
              ELSE VerifyLoop(Tail(ifile_list), Append(verified_ifile_list, path), logged)
         ELSE IF isdir(path)
         THEN VerifyLoop(Tail(ifile_list), verified_ifile_list \o DirectoryEntries(path), logged)
         ELSE IF glob(path) # {}
         THEN VerifyLoop(Tail(ifile_list), verified_ifile_list \o SeqOfSet(glob(path)), logged)
         ELSE [outcome |-> "exit", list |-> <<>>, log |-> Append(logged, <<"critical", path>>)]

WindowsFilterOnEveryPlatform(list) == SelectSeq(list, LAMBDA q : ~IsLockFile(q))

WindowsFilter(list) ==
    IF IS_WINDOWS THEN SelectSeq(list, LAMBDA q : ~IsLockFile(q)) ELSE list

GetVerifiedReturnsWhatItHas(ifile_list) ==
    LET loop == VerifyLoop(ifile_list, <<>>, <<>>) IN
    IF loop.outcome = "exit"
    THEN [Returned EXCEPT !.rkind = "set", !.paths = SetOfSeq(WindowsFilter(loop.list)),
                          !.log = loop.log]
    ELSE [Returned EXCEPT !.rkind = "set", !.paths = SetOfSeq(WindowsFilter(loop.list)),
                          !.log = loop.log]

get_verified_ifile_list(ifile_list) ==
    LET loop == VerifyLoop(ifile_list, <<>>, <<>>) IN
    IF loop.outcome = "exit" THEN [Exit EXCEPT !.log = loop.log]
    ELSE [Returned EXCEPT !.rkind = "set", !.paths = SetOfSeq(WindowsFilter(loop.list)),
                          !.log = loop.log]

-----------------------------------------------------------------------------
(* The main window: the file table, the result table of each tab and the   *)
(* buttons below it.                                                       *)

\* The result tabs.  The two tabs run the same code on models and buttons of
\* their own; the window is modelled with one of them.
Tabs == {"sca"}

\* A row of a table.  In the file table name and path are the cells "Name" and
\* "Path"; in a result table name is the vertical header label and path stands
\* for the values computed from that file.  NoItems is a row without items.
NoItems == [name |-> <<>>, path |-> <<>>]

\* Ng_Model.remove_single_empty_row
remove_single_empty_row(rows) ==
    IF Len(rows) = 1 /\ rows[1].name = <<>> THEN <<>> ELSE rows

\* QStandardItemModel.removeRows(row, count): whether rows were removed, and
\* the rows left.
removeRows(rows, row, count) ==
    IF count < 1 \/ row < 0 \/ row + count > Len(rows) THEN [ok |-> FALSE, rows |-> rows]
    ELSE [ok |-> TRUE, rows |-> SubSeq(rows, 1, row) \o SubSeq(rows, row + count + 1, Len(rows))]

\* Ng_Model.set_row_num(rowno, values) and setVerticalHeaderItem(rowno, item):
\* the model grows to hold the row.
set_row_num(rows, rowno, item) ==
    [i \in 1..(IF Len(rows) > rowno THEN Len(rows) ELSE rowno + 1) |->
        IF i = rowno + 1 THEN item ELSE IF i <= Len(rows) THEN rows[i] ELSE NoItems]

\* Ng_Main.yield_model_column: the texts of a column's items that are not None.
yield_model_column(rows, col) ==
    LET items == SelectSeq(rows, LAMBDA r : r[col] # <<>>) IN
    [i \in 1..Len(items) |-> items[i][col]]

\* Ng_Main.enable_button_generate_table
enable_button_generate_table(g, enabled) ==
    [g EXCEPT !.generate = [t \in Tabs |-> enabled]]

\* The slots of a result model's data_changed, in the order they were connected.
data_changed(g, tab) ==
    [g EXCEPT !.has_been_exported[tab] = FALSE, !.export[tab] = TRUE,
              !.clear[tab] = TRUE, !.generate[tab] = FALSE, !.changed[tab] = TRUE]

\* The slots of a result model's data_cleared.
data_cleared(g, tab) ==
    [g EXCEPT !.generate[tab] = TRUE, !.export[tab] = FALSE, !.clear[tab] = FALSE]

\* The slot of a result model's data_exported: set_has_been_exported(True).
data_exported(g, tab) == [g EXCEPT !.has_been_exported[tab] = TRUE]

\* Ng_Model.set_single_empty_row on a result model.
set_single_empty_row(g, tab) == data_cleared([g EXCEPT !.model[tab] = <<NoItems>>], tab)

\* The main window after setup_main_window: setup_tab_sca and setup_tab_lca
\* leave the Generate buttons enabled, setup_tableview_file disables them.
\* changed and exported are history: whether data_changed was emitted since the
\* last successful export, and the rows that export wrote (<<>> before any).
GuiInit ==
    enable_button_generate_table(
        [model_file |-> <<NoItems>>,
         model |-> [t \in Tabs |-> <<NoItems>>],
         has_been_exported |-> [t \in Tabs |-> FALSE],
         generate |-> [t \in Tabs |-> TRUE],
         export |-> [t \in Tabs |-> FALSE],
         clear |-> [t \in Tabs |-> FALSE],
         changed |-> [t \in Tabs |-> FALSE],
         exported |-> [t \in Tabs |-> <<>>]], FALSE)

\* The files the user can pick: a text, a corrupt document and a PDF.
GuiPaths == {P_u_txt, P_x_docx, P_f_pdf}

\* os_path.splitext(os_path.basename(file_path))[0]
file_name_of(file_path) ==
    LET b == basename(file_path)
        i == LastIndexOf(b, ".")
    IN  IF i <= 1 THEN b ELSE SubSeq(b, 1, i - 1)

\* The name a file is shown under: "name (n)" with the least n >= 2 that is free
\* when the name is taken.
shown_name(file_name, taken) ==
    IF file_name \notin taken THEN file_name
    ELSE LET occurrence(n) == file_name \o <<" (", ToString(n), ")">>
             free == {n \in 2..(Cardinality(taken) + 2) : occurrence(n) \notin taken}
         IN  occurrence(CHOOSE n \in free : \A m \in free : n <= m)

RECURSIVE append_files(_, _)
\* The loop of add_file_paths over file_paths_ok, in the order the set gives.
append_files(rows, order) ==
    IF order = <<>> THEN rows
    ELSE LET taken == SetOfSeq(yield_model_column(rows, "name"))
             name == shown_name(file_name_of(Head(order)), taken)
         IN  append_files(set_row_num(rows, Len(rows), [name |-> name, path |-> Head(order)]),
                          Tail(order))

\* file_paths_ok of add_file_paths.
file_paths_ok(g, file_paths_to_add) ==
    LET already == SetOfSeq(yield_model_column(g.model_file, "path"))
        dup == file_paths_to_add \cap already
        unsupported == {q \in file_paths_to_add : ~Supported(suffix(q))}
        empty == {q \in file_paths_to_add : getsize(Canon(q)) = 0}
    IN  (((file_paths_to_add \ already) \ dup) \ unsupported) \ empty

\* Ng_Main.add_file_paths; the file model's data_changed enables the Generate
\* buttons.
add_file_paths(g, order) ==
    IF order = <<>> THEN g
    ELSE enable_button_generate_table(
            [g EXCEPT !.model_file = append_files(remove_single_empty_row(g.model_file), order)],
            TRUE)

\* Ng_Main.remove_file_paths: the selected rows are taken; the file model's
\* data_cleared disables the Generate buttons.
remove_file_paths(g, rownos) ==
    LET kept == {i \in 1..Len(g.model_file) : i \notin rownos}
        nth(i) == CHOOSE k \in kept : Cardinality({j \in kept : j < k}) = i - 1
    IN  IF kept = {}
        THEN enable_button_generate_table([g EXCEPT !.model_file = <<NoItems>>], FALSE)
        ELSE [g EXCEPT !.model_file = [i \in 1..Cardinality(kept) |-> g.model_file[nth(i)]]]

\* How the body of export_table ends.  The save dialog was cancelled; or a
\* cell or a header of some row is None, item.text() raising AttributeError;
\* or the file cannot be written.  The workbook is saved after the cells are
\* read, the CSV file is opened before.
Exporting(rows, dialog, file_type) ==
    LET no_item == \E i \in 1..Len(rows) : rows[i] = NoItems IN
    IF dialog = "cancel" THEN "cancelled"
    ELSE IF file_type = "xlsx"
         THEN (IF no_item THEN "AttributeError"
               ELSE IF dialog = "denied" THEN "PermissionError" ELSE "exported")
    ELSE (IF dialog = "denied" THEN "PermissionError"
          ELSE IF no_item THEN "AttributeError" ELSE "exported")

ExportTableEmitsUnlessCancelled(g, tab, dialog, file_type) ==
    LET how == Exporting(g.model[tab], dialog, file_type)
        h == IF how = "exported"
             THEN [g EXCEPT !.changed[tab] = FALSE, !.exported[tab] = <<g.model[tab]>>]
             ELSE g
    IN  IF how # "cancelled" THEN data_exported(h, tab) ELSE h

\* Ng_TableView.export_table: data_exported is emitted in the else branch of
\* the try statement.  The history records what was written.
export_table(g, tab, dialog, file_type) ==
    LET how == Exporting(g.model[tab], dialog, file_type)
        h == IF how = "exported"
             THEN [g EXCEPT !.changed[tab] = FALSE, !.exported[tab] = <<g.model[tab]>>]
             ELSE g
    IN  IF how = "exported" THEN data_exported(h, tab) ELSE h

\* Ng_Main.ask_clear_model: the user is asked unless the table has been exported.
ask_clear_model(g, tab, yes) ==
    IF g.has_been_exported[tab] \/ yes THEN set_single_empty_row(g, tab) ELSE g

-----------------------------------------------------------------------------
(* The initial state: a fresh SCAIO instance in a populated directory.     *)

\* z.txt, z.docx, z.odt, z.pdf, z.csv: paths that name nothing.
P_z_txt == <<"z", ".", "t", "x", "t">>
P_z_docx == <<"z", ".", "d", "o", "c", "x">>
P_z_odt == <<"z", ".", "o", "d", "t">>
P_z_pdf == <<"z", ".", "p", "d", "f">>
P_z_csv == <<"z", ".", "c", "s", "v">>
\* ./d/a.txt, another spelling of d/a.txt
P_dot_d_a_txt == <<".", "/">> \o P_d_a_txt
\* d/*, d/*.txt, *.zip
G_d_all == P_d \o <<"/", "*">>
G_d_txt == P_d \o <<"/", "*", ".">> \o TXT
G_zip == <<"*", ".", "z", "i", "p">>

\* No Generate-table batch has been started.
Idle ==
    [pc |-> "idle", kind |-> "", files |-> <<>>, names |-> <<>>, rowno |-> 0,
     has_trailing_rows |-> TRUE, err_file_paths |-> <<>>, fatal |-> {}]

NewFile == [exists |-> TRUE, empty |-> FALSE, mtime |-> 0, busy |-> FALSE]
NoFile == [exists |-> FALSE, empty |-> FALSE, mtime |-> 0, busy |-> FALSE]

Init ==
    /\ previous_encoding = "utf-8"
    /\ fs = [n \in Nodes |-> NewFile]
    /\ clock = 0
    /\ op = "init" /\ arg = <<>> /\ outcome = "return" /\ exc = ""
    /\ rkind = "none" /\ rtext = <<>> /\ rpaths = {} /\ rbool = FALSE /\ rmsg = <<>>
    /\ log = <<>> /\ detect_calls = 0 /\ detected = ""
    /\ batch = <<>>
    /\ IS_WINDOWS \in BOOLEAN
    /\ turn = FALSE
    /\ worker = Idle
    /\ probed = {}
    /\ gui = GuiInit

\* The process is running: sys.exit has not been called.
Running == outcome # "exit"

\* The state after an operation that ended as r tells.
Apply(name, args, r) ==
    /\ previous_encoding' = r.enc
    /\ fs' = r.fs
    /\ op' = name /\ arg' = args /\ outcome' = r.outcome /\ exc' = r.exc
    /\ rkind' = r.rkind /\ rtext' = r.text /\ rpaths' = r.paths /\ rbool' = r.bool
    /\ rmsg' = r.msg /\ log' = r.log /\ detect_calls' = r.calls /\ detected' = r.detected
    /\ turn' = ~turn
    /\ probed' = IF name = "is_writable" /\ r.outcome = "return" /\ r.bool /\ exists(args[1])
                 THEN probed \cup {Canon(args[1])} ELSE probed
    /\ UNCHANGED <<clock, IS_WINDOWS>>

-----------------------------------------------------------------------------
(* Reading.                                                                *)

ReadPaths == {P_u_txt, P_l_txt, P_m_txt, P_r_txt, P_p_txt, P_txt, P_z_txt,
              P_s_docx, P_t_docx, P_x_docx, P_k_docx, P_z_docx, P_s_odt, P_t_odt, P_q_odt, P_z_odt,
              P_f_pdf, P_z_pdf, P_n, P_d}

\* The files another process removes while they are being read.
Volatile == {P_l_txt}

\* read_file(path)
ReadFile(path, vanish, answer) ==
    /\ Running
    /\ Apply("read_file", <<path>>, read_file(path, vanish, answer))
    /\ UNCHANGED <<batch, worker, gui>>

\* read_txt(path, is_guess_encoding=False)
ReadTxtNoGuess(path) ==
    /\ Running
    /\ Apply("read_txt", <<path>>, read_txt(path, FALSE, FALSE, None))
    /\ UNCHANGED <<batch, worker, gui>>

\* Whether read_file(path) gets to its second open and to detect().
Guesses(path) ==
    /\ suffix(path) = TXT
    /\ _read_txt(path, "r", previous_encoding).exc = "UnicodeDecodeError"

NextRead ==
    \/ \E path \in ReadPaths :
          \E vanish \in (IF Guesses(path) /\ path \in Volatile THEN BOOLEAN ELSE {FALSE}),
             answer \in (IF Guesses(path) THEN detect_answers ELSE {None}) :
             ReadFile(path, vanish, answer)
    \/ \E path \in {P_u_txt, P_l_txt, P_z_txt} : ReadTxtNoGuess(path)

SpecRead == Init /\ [][NextRead]_vars

-----------------------------------------------------------------------------
(* A batch: the plain-text files of one run, read in sequence on one       *)
(* instance.  The history keeps, per read, the path, the value of          *)
(* previous_encoding the read found, the calls of detect() it made, what   *)
(* detect() answered and whether the read returned text.                   *)

BatchPaths == {P_u_txt, P_l_txt, P_m_txt, P_p_txt}

BatchEntry(path, r) ==
    [path |-> path, before |-> previous_encoding, calls |-> r.calls,
     detected |-> r.detected, ok |-> r.outcome = "return" /\ r.rkind = "text"]

BatchRead(path, answer) ==
    /\ Running
    /\ Len(batch) < MaxBatch
    /\ Apply("read_file", <<path>>, read_file(path, FALSE, answer))
    /\ batch' = Append(batch, BatchEntry(path, read_file(path, FALSE, answer)))
    /\ UNCHANGED <<worker, gui>>

NextBatch ==
    \E path \in BatchPaths :
       \E answer \in (IF Guesses(path) THEN detect_answers ELSE {None}) : BatchRead(path, answer)

SpecBatch == Init /\ [][NextBatch]_vars

-----------------------------------------------------------------------------
(* Verification of the input file list.                                    *)

PathSpecs == {P_d, P_d_s_txt, P_d_a_txt, P_dot_d_a_txt, P_d_f_pdf, P_d_lock_docx,
              G_d_all, G_d_txt, G_zip}

RECURSIVE ListsUpTo(_, _)
\* The sequences of at most n elements of S.
ListsUpTo(S, n) ==
    IF n = 0 THEN {<<>>}
    ELSE ListsUpTo(S, n - 1) \cup {Append(l, x) : l \in {m \in ListsUpTo(S, n - 1) : Len(m) = n - 1}, x \in S}

\* The one call a run makes, on the path specifications it was started with.
GetVerifiedIfileList(ifile_list) ==
    /\ op = "init"
    /\ Apply("get_verified_ifile_list", ifile_list, get_verified_ifile_list(ifile_list))
    /\ UNCHANGED <<batch, worker, gui>>

\* The entries of d that another process creates and removes between calls.
Changing == {P_d_e_odt, P_d_lock_docx, P_d_s_txt}

\* A subdirectory goes and comes with what it holds.
Under(n) == {m \in Nodes : m = n \/ StartsWith(m, n \o <<SEP>>)}

ToggleEntry(n) ==
    /\ op = "init"
    /\ fs' = [m \in Nodes |-> IF m \in Under(n)
                                THEN (IF fs[n].exists THEN NoFile ELSE NewFile) ELSE fs[m]]
    /\ UNCHANGED <<previous_encoding, clock, op, arg, outcome, exc, rkind, rtext, rpaths,
                   rbool, rmsg, log, detect_calls, detected, batch, IS_WINDOWS, turn, worker,
                   probed, gui>>

NextVerify ==
    \/ \E ifile_list \in ListsUpTo(PathSpecs, MaxSpecs) : GetVerifiedIfileList(ifile_list)
    \/ \E n \in Changing : ToggleEntry(n)

SpecVerify == Init /\ [][NextVerify]_vars

-----------------------------------------------------------------------------
(* The cache test and the writability probe.                               *)

\* A source, an output, a path that names nothing; and a directory for the probe.
CachePaths == {P_u_txt, P_o_csv, P_z_csv}
ProbePaths == CachePaths \cup {P_d}

HasValidCache(file_path, cache_path) ==
    /\ Running
    /\ Apply("has_valid_cache", <<file_path, cache_path>>, has_valid_cache(file_path, cache_path))
    /\ UNCHANGED <<batch, worker, gui>>

IsWritable(filename) ==
    /\ Running
    /\ Apply("is_writable", <<filename>>, is_writable(filename))
    /\ UNCHANGED <<batch, worker, gui>>

EnvVars == <<previous_encoding, op, arg, outcome, exc, rkind, rtext, rpaths,
             rbool, rmsg, log, detect_calls, detected, batch, IS_WINDOWS, turn, worker, gui>>

\* Time passes.
Tick ==
    /\ clock < MaxTime
    /\ clock' = clock + 1
    /\ UNCHANGED <<fs, probed>> /\ UNCHANGED EnvVars

\* Another process (or a later step of this one) writes the file.
WriteFile(n) ==
    /\ ~fs[n].busy
    /\ fs' = [fs EXCEPT ![n] = [exists |-> TRUE, empty |-> FALSE, mtime |-> clock, busy |-> FALSE]]
    /\ probed' = probed \ {n}
    /\ UNCHANGED clock /\ UNCHANGED EnvVars

RemoveFile(n) ==
    /\ fs[n].exists /\ ~fs[n].busy
    /\ fs' = [fs EXCEPT ![n] = NoFile]
    /\ UNCHANGED <<clock, probed>> /\ UNCHANGED EnvVars

\* Another process opens the file and keeps it open, then closes it.
Hold(n) ==
    /\ fs[n].exists /\ ~fs[n].busy
    /\ fs' = [fs EXCEPT ![n].busy = TRUE]
    /\ UNCHANGED <<clock, probed>> /\ UNCHANGED EnvVars

Release(n) ==
    /\ fs[n].busy
    /\ fs' = [fs EXCEPT ![n].busy = FALSE]
    /\ UNCHANGED <<clock, probed>> /\ UNCHANGED EnvVars

NextCache ==
    \/ \E f \in CachePaths, c \in CachePaths : HasValidCache(f, c)
    \/ \E p \in ProbePaths : IsWritable(p)
    \/ Tick
    \/ \E n \in {P_u_txt, P_o_csv} : WriteFile(n)
    \/ \E n \in {P_u_txt, P_o_csv} : RemoveFile(n)
    \/ Hold(P_o_csv)
    \/ Release(P_o_csv)

SpecCache == Init /\ [][NextCache]_vars

-----------------------------------------------------------------------------
(* The Generate-table workers: a batch is the file table's paths, analysed *)
(* one per iteration of the loop of run.                                   *)

\* NeoSCA.parse_and_query_ifile, LCA._analyze: the analyser reads the file with
\* SCAIO.read_file and gives None when the read gives None; what the read
\* raises passes through it.
parse_and_query_ifile(file_path, vanish, answer) == read_file(file_path, vanish, answer)

\* The bare "except:" of the loop catches whatever is raised, SystemExit included.
Caught(r) == r.outcome \in {"raise", "exit"}

\* err_file_paths.append(file_path); continue
Skipped(r) == Caught(r) \/ r.rkind = "none"

WorkerFrame ==
    <<previous_encoding, fs, clock, op, arg, outcome, exc, rkind, rtext, rpaths,
      rbool, rmsg, log, detect_calls, detected, batch, IS_WINDOWS, turn, probed>>

\* The window takes the user's actions when no batch is running: the thread
\* opens the "Please Wait" dialog over it.
Interactive == worker.pc # "running"

\* The user adds files that exist; order is file_paths_ok as the loop meets it.
AddFilePaths(order) ==
    /\ Interactive
    /\ \E others \in SUBSET GuiPaths :
          /\ \A q \in SetOfSeq(order) \cup others : exists(q)
          /\ file_paths_ok(gui, SetOfSeq(order) \cup others) = SetOfSeq(order)
    /\ Len(yield_model_column(gui.model_file, "path")) + Len(order) <= MaxFiles
    /\ gui' = add_file_paths(gui, order)
    /\ worker' = Idle /\ UNCHANGED WorkerFrame

\* The user removes the selected rows of the file table.
RemoveFilePaths(rownos) ==
    /\ Interactive
    /\ rownos # {} /\ rownos \subseteq 1..Len(gui.model_file)
    /\ gui' = remove_file_paths(gui, rownos)
    /\ worker' = Idle /\ UNCHANGED WorkerFrame

\* The user clicks "Export all cells...".
ExportTable(tab, dialog, file_type) ==
    /\ Interactive /\ gui.export[tab]
    /\ gui' = export_table(gui, tab, dialog, file_type)
    /\ worker' = Idle /\ UNCHANGED WorkerFrame

\* The user clicks "Clear table".
AskClearModel(tab, yes) ==
    /\ Interactive /\ gui.clear[tab]
    /\ gui' = ask_clear_model(gui, tab, yes)
    /\ worker' = Idle /\ UNCHANGED WorkerFrame

\* The user clicks "Generate table"; run, up to the loop: the generators over
\* the file table are taken.
GenerateTableStart(kind) ==
    /\ Interactive /\ gui.generate[kind]
    /\ LET names == yield_model_column(gui.model_file, "name")
           paths == yield_model_column(gui.model_file, "path")
           n == IF Len(names) < Len(paths) THEN Len(names) ELSE Len(paths)
       IN  worker' = [Idle EXCEPT !.pc = "running", !.kind = kind,
                                  !.files = SubSeq(paths, 1, n), !.names = SubSeq(names, 1, n)]
    /\ UNCHANGED gui /\ UNCHANGED WorkerFrame

\* One iteration of the loop.
GenerateTableStep(vanish, answer) ==
    /\ worker.pc = "running" /\ worker.rowno < Len(worker.files)
    /\ LET rowno == worker.rowno
           file_path == worker.files[rowno + 1]
           file_name == worker.names[rowno + 1]
           r == parse_and_query_ifile(file_path, vanish, answer)
           rows == gui.model[worker.kind]
           removed == IF worker.has_trailing_rows
                      THEN removeRows(rows, rowno, Len(rows) - rowno)
                      ELSE [ok |-> FALSE, rows |-> rows]
       IN  /\ Apply("read_file", <<file_path>>, r)
           /\ worker' = [worker EXCEPT
                  !.rowno = @ + 1,
                  !.err_file_paths = IF Skipped(r) THEN Append(@, file_path) ELSE @,
                  !.has_trailing_rows = IF Skipped(r) THEN @ ELSE removed.ok,
                  !.fatal = IF r.outcome = "exit" THEN @ \cup {rowno} ELSE @]
           /\ gui' = IF Skipped(r) THEN gui
                     ELSE [gui EXCEPT !.model[worker.kind] =
                              set_row_num(removed.rows, rowno,
                                          [name |-> file_name, path |-> file_path])]
    /\ UNCHANGED batch

\* run, after the loop: data_changed is emitted, the skipped files are shown
\* and worker_done is emitted.
GenerateTableFinish ==
    /\ worker.pc = "running" /\ worker.rowno = Len(worker.files)
    /\ worker' = [worker EXCEPT !.pc = "done"]
    /\ gui' = data_changed(gui, worker.kind)
    /\ UNCHANGED WorkerFrame

NextGui ==
    \/ \E order \in ListsUpTo(GuiPaths, MaxFiles) :
          /\ order # <<>> /\ Cardinality(SetOfSeq(order)) = Len(order)
          /\ AddFilePaths(order)
    \/ \E rownos \in SUBSET (1..MaxFiles) : RemoveFilePaths(rownos)
    \/ \E tab \in Tabs, dialog \in {"cancel", "ok", "denied"}, file_type \in {"xlsx", "csv"} :
          ExportTable(tab, dialog, file_type)
    \/ \E tab \in Tabs, yes \in BOOLEAN : AskClearModel(tab, yes)
    \/ \E kind \in Tabs : GenerateTableStart(kind)
    \/ \E vanish \in BOOLEAN, answer \in detect_answers :
          /\ worker.pc = "running" /\ worker.rowno < Len(worker.files)
          /\ Guesses(worker.files[worker.rowno + 1]) \/ (~vanish /\ answer = None)
          /\ GenerateTableStep(vanish, answer)
    \/ GenerateTableFinish
    \/ RemoveFile(P_u_txt)

SpecGui == Init /\ [][NextGui]_vars

-----------------------------------------------------------------------------
(* The claims.                                                             *)

\* What follows the last "." of a path (the whole path when it holds none).
AfterLastDot(path) == SubSeq(path, LastIndexOf(path, ".") + 1, Len(path))
HasSupportedExtension(path) == AfterLastDot(path) \in {TXT, DOCX, ODT}

RECURSIVE Contains(_, _)
\* Whether part occurs in s.
Contains(s, part) ==
    StartsWith(s, part) \/ (s # <<>> /\ Contains(Tail(s), part))

\* The well-formed sample files and the text each stands for.  A plain-text
\* sample holds no carriage return, so that its text is its decoded bytes in
\* text mode and in binary mode alike.
WellFormedSamples == {P_u_txt, P_l_txt, P_m_txt, P_p_txt, P_s_docx, P_s_odt}
KnownText(n) == IF n \in ZipFiles THEN SampleText[n] ELSE TrueText(n)

\* C1: read_file on a well-formed file of a supported extension returns the
\* file's true plain text, whatever was read before on the instance.  The
\* charset detector is taken at its best: when it ran, it answered the encoding
\* the file was written in.
C1_ReadFileReturnsTrueText ==
    (/\ op = "read_file"
     /\ arg[1] \in WellFormedSamples
     /\ exists(arg[1])
     /\ detect_calls = 1 => detected = RawFiles[arg[1]].enc)
    => (outcome = "return" /\ rkind = "text" /\ rtext = KnownText(arg[1]))

\* C2: read_file on a path whose extension is not txt, docx or odt returns
\* None; it neither raises nor exits, whether or not the path exists.
C2_UnsupportedReturnsNone ==
    (op = "read_file" /\ ~HasSupportedExtension(arg[1]))
    => (outcome = "return" /\ rkind = "none" /\ exc = "")

C2_Witness ==
    /\ op = "read_file" /\ arg = <<P_z_pdf>> /\ ~exists(P_z_pdf)
    /\ outcome = "return" /\ rkind = "none"
    /\ log = <<<<"warning", P_z_pdf>>>>

\* The files of a batch are all written in one encoding, which is not UTF-8.
SameNonUtf8(b) ==
    \E e \in Encodings \ {"utf-8"} : \A i \in 1..Len(b) : RawFiles[b[i].path].enc = e

After(e) == IF e.calls = 1 /\ e.detected # None THEN e.detected ELSE e.before

Unresolvable(path) == ~isfile(path) /\ ~isdir(path) /\ glob(path) = {}

\* C4: when the list holds an unresolvable specification, wherever it stands
\* and whatever the others are, get_verified_ifile_list logs a critical record
\* for the first such specification and exits; it returns no set.
C4_UnresolvableSpecExits ==
    (op = "get_verified_ifile_list" /\ \E i \in 1..Len(arg) : Unresolvable(arg[i]))
    => LET k == CHOOSE i \in 1..Len(arg) :
                   Unresolvable(arg[i]) /\ \A j \in 1..(i - 1) : ~Unresolvable(arg[j])
       IN  /\ outcome = "exit" /\ rkind = "none" /\ rpaths = {}
           /\ log # <<>> /\ log[Len(log)] = <<"critical", arg[k]>>

\* An existing file first, a pattern without a match second.
C4_Witness ==
    /\ op = "get_verified_ifile_list" /\ arg = <<P_d_a_txt, G_zip>>
    /\ isfile(P_d_a_txt) /\ Unresolvable(G_zip)
    /\ outcome = "exit" /\ rkind = "none"

\* C5: every path of the returned set is an existing regular file with a
\* supported extension and, on Windows, no Word lock file.
C5_ReturnedPathsAreSupportedFiles ==
    (op = "get_verified_ifile_list" /\ outcome = "return")
    => \A q \in rpaths :
          /\ isfile(q)
          /\ HasSupportedExtension(q)
          /\ IS_WINDOWS => ~(EndsWith(q, <<".">> \o DOCX) /\ basename(q)[1] = "~")

\* The lists that hold the same specifications as l, in any order and number.
SameSpecs(l) == {m \in ListsUpTo(SetOfSeq(l), MaxSpecs) : SetOfSeq(m) = SetOfSeq(l)}

\* C6, amended: the outcome depends only on the set of specifications given:
\* every list holding the same specifications, in any order and any number of
\* times, gives the same set or the same exit.  One path is one entry; one file
\* under two spellings is two.
C6_OnlyTheSetOfSpecsMatters ==
    op = "get_verified_ifile_list"
    => \A m \in SameSpecs(arg) :
          LET r == get_verified_ifile_list(m) IN
          r.outcome = outcome /\ r.rkind = rkind /\ r.paths = rpaths

\* C6 as stated: the above, and a file reached through several specifications
\* is one entry of the set.
C6_OneEntryPerFile ==
    /\ C6_OnlyTheSetOfSpecsMatters
    /\ (op = "get_verified_ifile_list" /\ outcome = "return")
       => \A q1 \in rpaths, q2 \in rpaths : Canon(q1) = Canon(q2) => q1 = q2

\* d/a.txt is reached through the pattern and through the directory.
C6_Witness ==
    /\ op = "get_verified_ifile_list" /\ arg = <<G_d_txt, P_d>>
    /\ outcome = "return" /\ P_d_a_txt \in rpaths /\ P_d_b_docx \in rpaths
    /\ Cardinality(rpaths) >= 3

\* The patterns that select the files of a directory by supported extension.
GlobsOf(dir) == [i \in 1..Len(SUPPORTED_EXTENSIONS) |-> dir \o <<SEP, "*", ".">> \o SUPPORTED_EXTENSIONS[i]]
\* The entries of a directory that "*" matches.
VisibleEntries(dir) == {dir \o <<SEP>> \o name : name \in {m \in listdir(dir) : ~is_hidden(m)}}
NamedWith(q, extension) == EndsWith(q, <<".">> \o extension)
\* The entries named like a supported file that are no regular files.
OddEntries(dir) ==
    {q \in VisibleEntries(dir) :
        /\ ~isfile(q)
        /\ \E e \in {TXT, DOCX, ODT} : NamedWith(q, e)
        /\ ~(IS_WINDOWS /\ IsLockFile(q))}

\* C7 as stated: a directory gives what its three patterns give.
C7_DirectoryEqualsItsGlobs ==
    (op = "get_verified_ifile_list" /\ Len(arg) = 1 /\ isdir(arg[1]))
    => LET g == get_verified_ifile_list(GlobsOf(arg[1])) IN
       g.outcome = outcome /\ g.rkind = rkind /\ g.paths = rpaths

\* C7, amended: for an existing directory d, get_verified_ifile_list([d])
\* returns a set.  If some supported extension has no visible entry of that
\* name in d, the three patterns exit instead; otherwise they return that set
\* and, besides, the entries of d named like a supported file that are no
\* regular files.
C7_DirectoryAgainstItsGlobs ==
    (op = "get_verified_ifile_list" /\ Len(arg) = 1 /\ isdir(arg[1]))
    => LET g == get_verified_ifile_list(GlobsOf(arg[1])) IN
       /\ outcome = "return" /\ rkind = "set"
       /\ IF \A e \in {TXT, DOCX, ODT} : \E q \in VisibleEntries(arg[1]) : NamedWith(q, e)
          THEN /\ g.outcome = "return"
               /\ g.paths = rpaths \cup OddEntries(arg[1])
               /\ rpaths \cap OddEntries(arg[1]) = {}
          ELSE g.outcome = "exit"

\* d holds a file of each supported extension, an unsupported and a hidden
\* file, and no subdirectory: the directory and its patterns agree.
C7_Witness ==
    /\ op = "get_verified_ifile_list" /\ arg = <<P_d>>
    /\ ~exists(P_d_s_txt) /\ exists(P_d_f_pdf) /\ exists(P_d_h_txt)
    /\ {P_d_a_txt, P_d_b_docx, P_d_e_odt} \subseteq rpaths
    /\ get_verified_ifile_list(GlobsOf(P_d)).paths = rpaths

\* C8: when both files exist, has_valid_cache returns true exactly when the
\* cache file is not empty and its modification time is strictly greater than
\* the source file's.
C8_ValidIffNotEmptyAndNewer ==
    [][(turn' # turn /\ op' = "has_valid_cache" /\ exists(arg'[1]) /\ exists(arg'[2]))
       => /\ outcome' = "return" /\ rkind' = "bool"
          /\ rbool' = (/\ getsize(Canon(arg'[2])) > 0
                       /\ fs[Canon(arg'[2])].mtime > fs[Canon(arg'[1])].mtime)]_vars

\* An empty cache file newer than its source: no valid cache.
C8_Witness ==
    /\ op = "has_valid_cache" /\ arg = <<P_u_txt, P_o_csv>>
    /\ exists(P_u_txt) /\ exists(P_o_csv)
    /\ fs[P_o_csv].empty /\ fs[P_o_csv].mtime > fs[P_u_txt].mtime
    /\ outcome = "return" /\ rkind = "bool" /\ rbool = FALSE

\* C9: when the cache file or the source file is missing, has_valid_cache
\* returns false and raises nothing.
C9_MissingFileGivesFalse ==
    [][(turn' # turn /\ op' = "has_valid_cache" /\ (~exists(arg'[1]) \/ ~exists(arg'[2])))
       => (outcome' = "return" /\ rkind' = "bool" /\ rbool' = FALSE)]_vars

\* C10: is_writable returns (True, None) for a path that does not exist,
\* creating nothing, and for an existing file that opens for writing; when
\* the open fails because another process holds the file, it returns False
\* and a message that holds the path.
C10_IsWritable ==
    [][(turn' # turn /\ op' = "is_writable")
       => /\ ~exists(arg'[1])
             => (outcome' = "return" /\ rkind' = "pair" /\ rbool' /\ rmsg' = <<>> /\ fs' = fs)
          /\ (exists(arg'[1]) /\ Canon(arg'[1]) \in Files /\ ~fs[Canon(arg'[1])].busy)
             => (outcome' = "return" /\ rkind' = "pair" /\ rbool' /\ rmsg' = <<>>)
          /\ (exists(arg'[1]) /\ Canon(arg'[1]) \in Files /\ fs[Canon(arg'[1])].busy)
             => (outcome' = "return" /\ rkind' = "pair" /\ ~rbool'
                 /\ Contains(rmsg', arg'[1]))]_vars

\* The output file is held by another process.
C10_Witness ==
    /\ op = "is_writable" /\ arg = <<P_o_csv>> /\ fs[P_o_csv].exists /\ fs[P_o_csv].busy
    /\ outcome = "return" /\ rkind = "pair" /\ ~rbool /\ Contains(rmsg, P_o_csv)

\* The file named by path is gone when the call just made read it: it did not
\* exist at the call, or another process removed it during the call.
GoneAtRead(path) ==
    \/ ~exists(path)
    \/ Canon(path) \in Nodes /\ ~fs'[Canon(path)].exists

\* C11: read_file on a path of a supported extension whose file no longer
\* exists (at the call, or for a txt file at the binary re-open) logs a
\* critical record and exits the process: it returns nothing and raises no
\* exception the caller could recover from.
C11_VanishedFileExits ==
    [][(turn' # turn /\ op' = "read_file" /\ Supported(suffix(arg'[1])) /\ GoneAtRead(arg'[1]))
       => /\ outcome' = "exit"
          /\ log' = <<<<"critical", arg'[1]>>>>]_vars

\* C12: a fatal condition met while a file of the batch is read (the exit the
\* read asks for when the file is gone) ends the batch there: no later file is
\* processed, the run does not complete, and the file is not recorded as
\* skipped.
C12_FatalUnwindsTheBatch ==
    \A k \in worker.fatal :
       /\ worker.rowno <= k + 1
       /\ worker.pc # "done"
       /\ \A i \in 1..Len(worker.err_file_paths) : worker.err_file_paths[i] # worker.files[k + 1]

\* The member a reader takes from the archive.
MemberOf(path) == IF suffix(path) = DOCX THEN DOCX_MEMBER ELSE ODT_MEMBER

\* An existing docx or odt file that is no zip archive, or lacks the member,
\* or whose member is not well-formed XML.
Corrupt(path) ==
    /\ suffix(path) \in {DOCX, ODT} /\ isfile(path)
    /\ \/ Canon(path) \notin ZipFiles
       \/ fs[Canon(path)].empty
       \/ MemberOf(path) \notin DOMAIN Archives[Canon(path)]
       \/ ~Archives[Canon(path)][MemberOf(path)].wellformed

\* C13: read_file on a corrupt docx or odt file ends with an exception that
\* propagates to the caller: it returns neither None nor text, logs no skip
\* and does not exit.
C13_CorruptArchiveRaises ==
    (op = "read_file" /\ Corrupt(arg[1]))
    => /\ outcome = "raise"
       /\ exc \in {"BadZipFile", "KeyError", "ParseError"}
       /\ rkind = "none" /\ rtext = <<>> /\ log = <<>>

\* The three kinds of corruption have been met: a docx that is no archive, a
\* docx without word/document.xml, an odt whose content.xml does not parse.
C13_Witness ==
    /\ op = "read_file" /\ arg = <<P_q_odt>> /\ Corrupt(P_q_odt)
    /\ Corrupt(P_x_docx) /\ Corrupt(P_k_docx)
    /\ outcome = "raise" /\ exc = "ParseError"

\* C14: read_file on a path that holds no ".", whatever its name, returns None
\* with a warning and calls no reader.
C14_NoExtensionReturnsNone ==
    (op = "read_file" /\ LastIndexOf(arg[1], ".") = 0)
    => /\ outcome = "return" /\ rkind = "none" /\ rtext = <<>>
       /\ log = <<<<"warning", arg[1]>>>>
       /\ detect_calls = 0

\* C15: previous_encoding is "utf-8" on a fresh instance and a step changes it
\* only if the step is a txt read that returns decoded text: a read that
\* returns None, raises or exits, and any other operation, leaves it as it was.
C15_EncodingChangesOnlyWithDecodedText ==
    /\ [](op = "init" => previous_encoding = "utf-8")
    /\ [][previous_encoding' # previous_encoding
          => /\ op' \in {"read_file", "read_txt"} /\ suffix(arg'[1]) = TXT
             /\ outcome' = "return" /\ rkind' = "text"]_vars

\* C16: when the first decode of a txt file fails and detect() answers None,
\* the read returns None with a warning; it raises nothing and does not exit:
\* the process runs on, and the next read of the batch finds previous_encoding
\* as it was.
C16_NoGuessIsASkip ==
    /\ (op = "read_file" /\ detect_calls = 1 /\ detected = None)
       => /\ outcome = "return" /\ exc = "" /\ rkind = "none" /\ rtext = <<>>
          /\ log = <<<<"warning", arg[1]>>>>
          /\ Running
    /\ \A i \in 1..Len(batch) :
          (batch[i].calls = 1 /\ batch[i].detected = None)
          => /\ ~batch[i].ok
             /\ ~Decode(batch[i].before, RawFiles[batch[i].path].bytes).ok
             /\ i < Len(batch) => batch[i + 1].before = batch[i].before

\* A file without a guess, skipped, and a file read after it.
C16_Witness ==
    /\ Len(batch) >= 2
    /\ batch[1].path = P_m_txt /\ batch[1].calls = 1 /\ batch[1].detected = None /\ ~batch[1].ok
    /\ batch[2].ok

\* A step that is read_file on an existing plain-text file.
GuessingTxtRead == turn' # turn /\ op' = "read_file" /\ suffix(arg'[1]) = TXT /\ isfile(arg'[1])
\* What such a read relates: the file's bytes, the first attempt (text mode,
\* the value of previous_encoding the read finds), and whether the file was
\* removed before the binary re-open.
FirstAttempt == ReadText(previous_encoding, Bytes(Canon(arg'[1])))
GoneAtReopen == ~fs'[Canon(arg'[1])].exists
\* What the read gives when its first attempt decodes, and when it guesses.
AttemptThenGuess ==
    /\ FirstAttempt.ok
       => /\ outcome' = "return" /\ rkind' = "text" /\ rtext' = FirstAttempt.text
          /\ previous_encoding' = previous_encoding
    /\ detect_calls' \in {0, 1}
    /\ (detect_calls' = 1 /\ detected' # None /\ Decode(detected', Bytes(Canon(arg'[1]))).ok)
       => /\ outcome' = "return" /\ rkind' = "text"
          /\ rtext' = Decode(detected', Bytes(Canon(arg'[1]))).text

\* C17 as stated: detect() is called exactly when the first attempt fails to
\* decode.
C17_DetectsIffFirstAttemptFails ==
    [][GuessingTxtRead
       => /\ AttemptThenGuess
          /\ detect_calls' = (IF FirstAttempt.ok THEN 0 ELSE 1)]_vars

\* C17, amended: a guessing txt read first decodes with the value of
\* previous_encoding it finds; detect() is called only if that attempt fails
\* with a decode error, and then exactly once, on the bytes of the binary
\* re-open, unless the file is gone at the re-open: then the read exits
\* without calling it.
C17_DetectsOnceUnlessGone ==
    [][GuessingTxtRead
       => /\ AttemptThenGuess
          /\ detect_calls' = (IF FirstAttempt.ok \/ GoneAtReopen THEN 0 ELSE 1)
          /\ GoneAtReopen => (~FirstAttempt.ok /\ outcome' = "exit")]_vars

\* A file with CRLF line ends that is no UTF-8, read after a guess of cp1252
\* that decodes it: no call of detect(), and the text has "\n".  Read on a fresh
\* instance, the same file makes one call.
C17_Witness ==
    /\ op = "read_file" /\ arg = <<P_r_txt>>
    /\ previous_encoding = "cp1252" /\ detect_calls = 0
    /\ outcome = "return" /\ rkind = "text" /\ rtext = <<233, LF, 65>>
    /\ ~ReadText("utf-8", Bytes(P_r_txt)).ok

\* Whether the log holds a record of that level for that path.
HasLogged(level, path) == \E k \in 1..Len(log) : log[k] = <<level, path>>

\* C18: a specification that names an existing regular file is in the
\* returned set exactly when its extension is supported and the Windows filter
\* does not remove it; a file of an unsupported extension is dropped with a
\* warning, and it does not make the verification exit.
C18_FileSpecKeptIffSupported ==
    op = "get_verified_ifile_list"
    => /\ outcome = "exit" <=> \E i \in 1..Len(arg) : Unresolvable(arg[i])
       /\ outcome = "return"
          => \A i \in 1..Len(arg) :
                isfile(arg[i])
                => /\ arg[i] \in rpaths
                      <=> (Supported(suffix(arg[i])) /\ ~(IS_WINDOWS /\ IsLockFile(arg[i])))
                   /\ ~Supported(suffix(arg[i])) => HasLogged("warning", arg[i])

\* The immediate children of a directory, named as the directory is spelled.
Children(dir) == {dir \o <<SEP>> \o name : name \in listdir(dir)}

\* C19: for a directory specification alone, the returned set is exactly the
\* directory's immediate children that are regular files of a supported
\* extension, whatever their names (less Word lock files on Windows).
C19_DirectoryGivesItsSupportedFiles ==
    (op = "get_verified_ifile_list" /\ Len(arg) = 1 /\ isdir(arg[1]))
    => /\ outcome = "return" /\ rkind = "set"
       /\ rpaths = {q \in Children(arg[1]) :
                       /\ isfile(q) /\ HasSupportedExtension(q)
                       /\ ~(IS_WINDOWS /\ IsLockFile(q))}

\* A specification that is no file and no directory and matches something.
IsPattern(path) == ~isfile(path) /\ ~isdir(path) /\ glob(path) # {}

\* C20 as stated: every expansion of a pattern is in the returned set.
C20_PatternExpansionsAsIs ==
    (op = "get_verified_ifile_list" /\ outcome = "return")
    => \A i \in 1..Len(arg) : IsPattern(arg[i]) => glob(arg[i]) \subseteq rpaths

\* C20, amended: every expansion of a pattern is in the returned set, be it a
\* file of any extension or a directory, except that on Windows the Word lock
\* files are removed from it; a pattern alone gives exactly that.
C20_PatternExpansionsButLockFiles ==
    (op = "get_verified_ifile_list" /\ outcome = "return")
    => \A i \in 1..Len(arg) :
          IsPattern(arg[i])
          => /\ {q \in glob(arg[i]) : ~(IS_WINDOWS /\ IsLockFile(q))} \subseteq rpaths
             /\ Len(arg) = 1
                => rpaths = {q \in glob(arg[i]) : ~(IS_WINDOWS /\ IsLockFile(q))}

\* d/* alone, on Windows: the pdf file and the subdirectory are in the set, the
\* lock file is not.
C20_Witness ==
    /\ op = "get_verified_ifile_list" /\ arg = <<G_d_all>> /\ outcome = "return"
    /\ IS_WINDOWS /\ isfile(P_d_lock_docx) /\ isdir(P_d_s_txt)
    /\ P_d_f_pdf \in rpaths /\ P_d_s_txt \in rpaths /\ P_d_lock_docx \notin rpaths
    /\ P_d_lock_docx \in glob(G_d_all)

\* What the loop of get_verified_ifile_list collects before the platform is
\* looked at.
Collected == VerifyLoop(arg, <<>>, <<>>)

RECURSIVE CountTag(_, _)
\* How many elements of a forest bear the tag.
CountTag(es, tag) ==
    IF es = <<>> THEN 0
    ELSE (IF Head(es).tag = tag THEN 1 ELSE 0)
         + CountTag(Head(es).kids, tag) + CountTag(Tail(es), tag)

\* The lines of the sample documents, read off their XML by hand: s.docx has
\* the paragraphs AB, (empty), C; t.docx has ABC (its text box included), B
\* (the text box), D (the table cell) and a last empty paragraph.
DocxLines ==
    [n \in {P_s_docx, P_t_docx} |->
        IF n = P_s_docx THEN << <<65, 66>>, <<>>, <<67>> >>
        ELSE << <<65, 66, 67>>, <<66>>, <<68>>, <<>> >>]

\* s.odt has the paragraphs ABC and D; t.odt has ABcCDEF (span, line break
\* tail and frame included), D (the frame's paragraph), G (the list item) and
\* an empty paragraph.  The heading H is no text:p.
OdtLines ==
    [n \in {P_s_odt, P_t_odt} |->
        IF n = P_s_odt THEN << <<65, 66, 67>>, <<68>> >>
        ELSE << <<65, 66, 99, 67, 68, 69, 70>>, <<68>>, <<71>>, <<>> >>]

\* C22: read_docx returns one line per paragraph element of word/document.xml,
\* wherever it sits, in document order; a line is the concatenation of the text
\* runs inside the paragraph; the lines are joined by single newlines, none is
\* appended, and a paragraph without text gives an empty line.
C22_DocxOneLinePerParagraph ==
    (op = "read_file" /\ arg[1] \in DOMAIN DocxLines) =>
        /\ outcome = "return" /\ rkind = "text"
        /\ rtext = Join(DocxLines[arg[1]], <<LF>>)
        /\ Len(DocxLines[arg[1]]) = CountTag(<<Archives[arg[1]][DOCX_MEMBER].root>>, DOCX_PARA)

C22_Witness ==
    /\ op = "read_file" /\ arg = <<P_t_docx>>
    /\ rtext = <<65, 66, 67, LF, 66, LF, 68, LF>>

\* C23: read_odt returns one line per text:p element of content.xml, wherever
\* it sits, in document order; a line is the whole inner text of the paragraph,
\* nested elements and the text after them included; the lines are joined by
\* single newlines.
C23_OdtOneLinePerParagraph ==
    (op = "read_file" /\ arg[1] \in DOMAIN OdtLines) =>
        /\ outcome = "return" /\ rkind = "text"
        /\ rtext = Join(OdtLines[arg[1]], <<LF>>)
        /\ Len(OdtLines[arg[1]]) = CountTag(<<Archives[arg[1]][ODT_MEMBER].root>>, ODT_PARA)

C23_Witness ==
    /\ op = "read_file" /\ arg = <<P_t_odt>>
    /\ rtext = <<65, 66, 99, 67, 68, 69, 70, LF, 68, LF, 71, LF>>


\* C24: when the probe of is_writable fails on an existing path, for whatever
\* reason (permission denied, the path is a directory, another OS error),
\* is_writable returns False and a message; it never raises and never ends
\* the process.
C24_ProbeFailureIsReported ==
    [][(turn' # turn /\ op' = "is_writable")
       => /\ outcome' = "return" /\ rkind' = "pair"
          /\ (exists(arg'[1]) /\ OpenForWriting(arg'[1]) # "")
             => (~rbool' /\ rmsg' # <<>>)]_vars


\* C25: the probe of is_writable is destructive.  After is_writable(p) has
\* returned (True, None) for an existing file p, p has size 0 for as long as
\* nothing writes it, and a call has_valid_cache(source, p) made in that time
\* returns false, whatever the modification times of source and p are.
C25_ProbeEmptiesTheCache ==
    [][/\ \A p \in probed' : fs'[p].exists => (fs'[p].empty /\ getsize(p)' = 0)
       /\ (/\ turn' # turn /\ op' = "has_valid_cache"
           /\ Canon(arg'[2]) \in probed /\ exists(arg'[1]))
          => (outcome' = "return" /\ rkind' = "bool" /\ rbool' = FALSE)]_vars

\* The cache was probed, not written since, and is newer than its source.
C25_Witness ==
    /\ op = "has_valid_cache" /\ arg = <<P_u_txt, P_o_csv>>
    /\ P_o_csv \in probed /\ exists(P_o_csv) /\ exists(P_u_txt)
    /\ fs[P_o_csv].mtime > fs[P_u_txt].mtime
    /\ outcome = "return" /\ rbool = FALSE


\* The files the file table holds.
AddedFiles == yield_model_column(gui.model_file, "path")

\* The rows of a result table that hold analysis data.
DataRows(tab) == SelectSeq(gui.model[tab], LAMBDA r : r # NoItems)

\* C26: whatever the user did (adding and removing files, generating,
\* exporting and clearing tables), the "Generate table" button of a tab is
\* enabled only when the file table holds at least one added file.
C26_GenerateNeedsAFile ==
    \A tab \in Tabs : gui.generate[tab] => Len(AddedFiles) >= 1

\* C27: the "Export all cells..." and "Clear table" buttons of a result tab
\* are enabled only when the tab's result table holds at least one row of
\* analysis data; they stay disabled after a batch that skipped every file or
\* had no file.
C27_ExportAndClearNeedData ==
    \A tab \in Tabs : (gui.export[tab] \/ gui.clear[tab]) => Len(DataRows(tab)) >= 1

\* A Generate batch has just completed.
Completed == worker.pc = "done"

\* The files of the batch that were not skipped, as rows, in file-list order.
AnalysedRows ==
    LET kept == {i \in 1..Len(worker.files) :
                    worker.files[i] \notin SetOfSeq(worker.err_file_paths)}
        nth(i) == CHOOSE k \in kept : Cardinality({j \in kept : j < k}) = i - 1
    IN  [i \in 1..Cardinality(kept) |->
            [name |-> worker.names[nth(i)], path |-> worker.files[nth(i)]]]

\* C28: after a Generate batch completes, the result table holds exactly one
\* row per analysed file, in file-list order, no empty row in between, each
\* labelled with its file's name; every input file has a row or is listed as
\* skipped, never both and never neither.
C28_OneRowPerAnalysedFile ==
    Completed =>
        /\ DataRows(worker.kind) = AnalysedRows
        /\ AnalysedRows # <<>> => gui.model[worker.kind] = AnalysedRows
        /\ \A i \in 1..Len(worker.files) :
              (worker.files[i] \in SetOfSeq(worker.err_file_paths))
              # (\E k \in 1..Len(gui.model[worker.kind]) :
                    gui.model[worker.kind][k].path = worker.files[i])

\* C29: has_been_exported is true only when an export succeeded and no
\* data_changed was emitted since; a cancelled or failed export does not set
\* it; so "Clear table", when the user can click it, discards the data
\* without asking only if the table is as the last successful export wrote it.
C29_SilentClearOnlyAfterExport ==
    \A tab \in Tabs :
        /\ gui.has_been_exported[tab] => (~gui.changed[tab] /\ gui.exported[tab] # <<>>)
        /\ (Interactive /\ gui.clear[tab] /\ gui.has_been_exported[tab])
              => gui.exported[tab] = <<gui.model[tab]>>

\* An exported table was cleared without a question.
C29_Witness ==
    \E tab \in Tabs :
        /\ gui.has_been_exported[tab] /\ gui.exported[tab] # <<>>
        /\ gui.model[tab] = <<NoItems>> /\ ~gui.clear[tab]

=============================================================================
